---- MODULE Spec2Model ----
(***************************************************************************)
(* A model of odt2csv (src/src/odt2csv/__init__.py, exceptions.py).        *)
(*                                                                         *)
(* Python strings are modelled as sequences of one-character strings, so   *)
(* that slicing, strip(), split(), replace() and startswith() are computed *)
(* the way the code computes them.  A text file is the sequence of its     *)
(* lines (each without its terminating newline).                           *)
(***************************************************************************)
EXTENDS Integers, Sequences, FiniteSets, TLC

VARIABLES
    \* ---- the world convert() runs in
    fs,                        \* path -> [exists, lines]: the file system
    fs0,                       \* the file system when convert() was called
    handles,                   \* the file objects convert() has created, in order
    \* ---- the arguments of convert()
    odt_input, csv_output, output_suffix, keep_unit, parser_behavior,
    \* ---- the locals of convert()
    pc,                        \* position in convert()
    fo,                        \* resolved output path
    read_in,                   \* index in handles of the reader bound to read_in (0: unbound)
    write_out,                 \* index in handles of the appending writer (0: unbound)
    table_start_count,
    raw_parsing_mode,          \* "None", "False" or "True"
    encountered_table_starts,
    raised,                    \* the exception convert() raised: [type, arg]
    trace,                     \* per line of the main pass: [line, skipped, wrote]
    \* ---- a direct call of one of the pure helpers
    fn,                        \* "none", "tokenize_header" or "space2comma": the helper called
    str_,                      \* its argument
    ret,                       \* its return value
    returned                   \* whether it has returned

vars == <<fs, fs0, handles, odt_input, csv_output, output_suffix, keep_unit,
          parser_behavior, pc, fo, read_in, write_out, table_start_count,
          raw_parsing_mode, encountered_table_starts, raised, trace,
          fn, str_, ret, returned>>

convertVars == <<fs, fs0, handles, odt_input, csv_output, output_suffix, keep_unit,
                 parser_behavior, pc, fo, read_in, write_out, table_start_count,
                 raw_parsing_mode, encountered_table_starts, raised, trace>>

helperVars == <<fn, str_, ret, returned>>

-----------------------------------------------------------------------------
(* Python string primitives                                                *)

\* The characters str.strip() removes that occur in the modelled inputs.
Whitespace == {" ", "\t"}

\* s[:n]
Take(s, n) == SubSeq(s, 1, IF n < Len(s) THEN n ELSE Len(s))

\* s[n:]
Drop(s, n) == SubSeq(s, n + 1, Len(s))

\* s[:-1]
DropLast(s) == SubSeq(s, 1, Len(s) - 1)

\* s.startswith(prefix)
StartsWith(s, prefix) == Len(s) >= Len(prefix) /\ SubSeq(s, 1, Len(prefix)) = prefix

\* s.__contains__(c) for a one-character c
Contains(s, c) == \E i \in 1..Len(s) : s[i] = c

RECURSIVE LStrip(_)
LStrip(s) == IF s # <<>> /\ s[1] \in Whitespace THEN LStrip(Tail(s)) ELSE s

RECURSIVE RStrip(_)
RStrip(s) == IF s # <<>> /\ s[Len(s)] \in Whitespace THEN RStrip(DropLast(s)) ELSE s

\* s.strip()
Strip(s) == RStrip(LStrip(s))

\* s.split(c) for a one-character separator c: the pieces, empty ones included
RECURSIVE Split(_, _)
Split(s, c) ==
    IF ~Contains(s, c) THEN <<s>>
    ELSE LET i == CHOOSE k \in 1..Len(s) : s[k] = c /\ \A j \in 1..(k - 1) : s[j] # c
         IN  <<SubSeq(s, 1, i - 1)>> \o Split(Drop(s, i), c)

\* s.replace('  ', ' '): non-overlapping occurrences, left to right
RECURSIVE ReplaceDoubleSpace(_)
ReplaceDoubleSpace(s) ==
    IF Len(s) < 2 THEN s
    ELSE IF s[1] = " " /\ s[2] = " "
         THEN <<" ">> \o ReplaceDoubleSpace(Drop(s, 2))
         ELSE <<s[1]>> \o ReplaceDoubleSpace(Tail(s))

\* s.replace(' ', ',')
RECURSIVE ReplaceSpaceByComma(_)
ReplaceSpaceByComma(s) ==
    IF s = <<>> THEN <<>>
    ELSE <<IF s[1] = " " THEN "," ELSE s[1]>> \o ReplaceSpaceByComma(Tail(s))

\* s.__contains__('  ')
HasDoubleSpace(s) == \E i \in 1..(Len(s) - 1) : s[i] = " " /\ s[i + 1] = " "

\* '"' + s + '",'
QuotedComma(s) == <<"\"">> \o s \o <<"\"", ",">>

-----------------------------------------------------------------------------
(* The helpers of src/src/odt2csv/__init__.py                              *)

RECURSIVE despacifier_loop(_)
despacifier_loop(s) ==
    IF HasDoubleSpace(s) THEN despacifier_loop(ReplaceDoubleSpace(s)) ELSE s

despacifier(s) == Strip(despacifier_loop(s))

\* remove_empty stripping the items but keeping the empty ones.
RECURSIVE remove_emptyKeepsEmpty(_)
remove_emptyKeepsEmpty(input_list) ==
    IF input_list = <<>> THEN <<>>
    ELSE <<Strip(Head(input_list))>> \o remove_emptyKeepsEmpty(Tail(input_list))

RECURSIVE remove_empty(_)
remove_empty(input_list) ==
    IF input_list = <<>> THEN <<>>
    ELSE LET l == Strip(Head(input_list))
         IN  (IF Len(l) = 0 THEN <<>> ELSE <<l>>) \o remove_empty(Tail(input_list))

\* space2comma without the collapsing and trimming of spaces (line 74).
space2commaNoDespacifier(s) == ReplaceSpaceByComma(s)

space2comma(s) == ReplaceSpaceByComma(despacifier(s))

\* for s in <list>: sanitized_ch += '"' + s + '",'      (lines 106-107)
RECURSIVE AppendQuoted(_)
AppendQuoted(list) ==
    IF list = <<>> THEN <<>>
    ELSE QuotedComma(Head(list)) \o AppendQuoted(Tail(list))

\* for s in r: if s.startswith('}'): s = s[1:]; sanitized_ch += ...  (lines 113-116)
RECURSIVE AppendQuotedPlain(_)
AppendQuotedPlain(r) ==
    IF r = <<>> THEN <<>>
    ELSE LET s == Head(r)
         IN  QuotedComma(IF StartsWith(s, <<"}">>) THEN Drop(s, 1) ELSE s)
             \o AppendQuotedPlain(Tail(r))

\* TokenizePiece with the brace group's text split on spaces like the text
\* outside the groups, one token per word.
TokenizePieceSplitGroup(q0) ==
    LET q == Strip(q0)
    IN  IF Contains(q, "}") /\ ~StartsWith(q, <<"}">>)
        THEN LET r == remove_empty(Split(q, "}"))
             IN  (IF Len(r) = 0 THEN <<"\"", "\"", ",">> ELSE AppendQuoted(Split(r[1], " ")))
                 \o (IF Len(r) > 1 THEN AppendQuoted(Split(r[2], " ")) ELSE <<>>)
        ELSE AppendQuotedPlain(remove_empty(Split(q, " ")))

\* TokenizePiece with the brace group's token cut at its first inner space.
TokenizePieceFirstWord(q0) ==
    LET q == Strip(q0)
    IN  IF Contains(q, "}") /\ ~StartsWith(q, <<"}">>)
        THEN LET r == remove_empty(Split(q, "}"))
             IN  (IF Len(r) = 0 THEN <<"\"", "\"", ",">>
                  ELSE QuotedComma(Head(Split(r[1], " "))))
                 \o (IF Len(r) > 1 THEN AppendQuoted(Split(r[2], " ")) ELSE <<>>)
        ELSE AppendQuotedPlain(remove_empty(Split(q, " ")))

\* One iteration of the loop over p (lines 96-116): what it appends to sanitized_ch.
TokenizePiece(q0) ==
    LET q == Strip(q0)
    IN  IF Contains(q, "}") /\ ~StartsWith(q, <<"}">>)
        THEN LET r == remove_empty(Split(q, "}"))
             IN  (IF Len(r) = 0 THEN <<"\"", "\"", ",">> ELSE QuotedComma(r[1]))
                 \o (IF Len(r) > 1 THEN AppendQuoted(Split(r[2], " ")) ELSE <<>>)
        ELSE AppendQuotedPlain(remove_empty(Split(q, " ")))

RECURSIVE TokenizePieces(_)
TokenizePieces(p) ==
    IF p = <<>> THEN <<>> ELSE TokenizePiece(Head(p)) \o TokenizePieces(Tail(p))

\* tokenize_header without the trimming of the trailing comma (line 119).
tokenize_headerKeepsComma(s) ==
    LET l == despacifier(s)
        p == remove_empty(Split(l, "{"))
    IN  TokenizePieces(p)

tokenize_header(s) ==
    LET l == despacifier(s)
        p == remove_empty(Split(l, "{"))
    IN  DropLast(TokenizePieces(p))

-----------------------------------------------------------------------------
(* Python values, paths and the file system                                *)

\* A Python int or str (the values parser_behavior and an exception's arg take).
PyInt(n) == [isInt |-> TRUE, i |-> n, s |-> <<>>]
PyStr(s) == [isInt |-> FALSE, i |-> 0, s |-> s]

DigitChar == <<"0", "1", "2", "3", "4", "5", "6", "7", "8", "9">>

RECURSIVE NatToStr(_)
NatToStr(n) ==
    IF n < 10 THEN <<DigitChar[n + 1]>>
    ELSE NatToStr(n \div 10) \o <<DigitChar[(n % 10) + 1]>>

\* str(v)
Str(v) == IF v.isInt
          THEN (IF v.i < 0 THEN <<"-">> \o NatToStr(-v.i) ELSE NatToStr(v.i))
          ELSE v.s

\* An optional argument: None or a str.
None == [none |-> TRUE, val |-> <<>>]
Some(s) == [none |-> FALSE, val |-> s]

\* A file of the file system.
Missing == [exists |-> FALSE, lines |-> <<>>]
File(lines) == [exists |-> TRUE, lines |-> lines]

\* A file object: mode "r", "w" or "a"; pos counts the lines read so far.
Handle(path, mode) == [path |-> path, mode |-> mode, closed |-> FALSE, pos |-> 0]

\* os.path.splitext(p)[0]: p up to its last dot, when that dot lies in the last
\* path component and is preceded there by a character that is not a dot.
SplitextRoot(p) ==
    LET sep == IF Contains(p, "/")
               THEN CHOOSE k \in 1..Len(p) : p[k] = "/" /\ \A j \in (k + 1)..Len(p) : p[j] # "/"
               ELSE 0
        dots == {k \in (sep + 1)..Len(p) : p[k] = "."}
        dot == IF dots = {} THEN 0 ELSE CHOOSE k \in dots : \A j \in dots : j <= k
    IN  IF dot # 0 /\ \E j \in (sep + 1)..(dot - 1) : p[j] # "."
        THEN SubSeq(p, 1, dot - 1)
        ELSE p

\* s[-n:]
LastN(s, n) == SubSeq(s, IF Len(s) > n THEN Len(s) - n + 1 ELSE 1, Len(s))

DotCsv == <<".", "c", "s", "v">>

\* lines 146-154: the output path
OutputPath(in, out, suffix) ==
    IF out.none /\ suffix.none THEN SplitextRoot(in) \o DotCsv
    ELSE IF out.none /\ ~suffix.none THEN SplitextRoot(in) \o suffix.val \o DotCsv
    ELSE IF LastN(out.val, 4) # DotCsv
         THEN out.val \o DotCsv
         ELSE out.val

-----------------------------------------------------------------------------
(* Line classification (lines 164-165, 199-200, 209, 251, 257)              *)

TableStartPrefix == <<"#", " ", "T", "a", "b", "l", "e", " ", "S", "t", "a", "r", "t">>
ColumnsPrefix == <<"#", " ", "C", "o", "l", "u", "m", "n", "s", ":">>
UnitsPrefix == <<"#", " ", "U", "n", "i", "t", "s", ":">>

ColumnsPrefixLen == 10
UnitsPrefixLen == 8

\* l.strip().startswith('# Table Start')
IsTableStart(rawline) == StartsWith(Strip(rawline), TableStartPrefix)

\* CountTableStarts stopping at the first marker it meets.
CountTableStartsAtMostOne(lines) ==
    IF \E i \in 1..Len(lines) : StartsWith(Strip(lines[i]), TableStartPrefix) THEN 1 ELSE 0

\* lines 160-166: the pre-scan's count over the lines it reads
RECURSIVE CountTableStarts(_)
CountTableStarts(lines) ==
    IF lines = <<>> THEN 0
    ELSE (IF IsTableStart(Head(lines)) THEN 1 ELSE 0) + CountTableStarts(Tail(lines))

\* SkipLine skipping only until the first marker has been met.
SkipLineUntilFirstMarker(raw_mode, encountered, total) ==
    raw_mode = "False" /\ total > 0 /\ encountered = 0

\* SkipLine without the test of the parsing mode.
SkipLineInAnyMode(raw_mode, encountered, total) ==
    encountered < total

\* lines 204-206: whether the main pass skips the current line
SkipLine(raw_mode, encountered, total) ==
    raw_mode = "False" /\ encountered < total

\* EmitLine writing the unit row whatever keep_unit is.
EmitLineUnitsAlways(l, keep) ==
    IF Take(l, ColumnsPrefixLen) = ColumnsPrefix
    THEN <<tokenize_header(Drop(l, ColumnsPrefixLen))>>
    ELSE IF Take(l, UnitsPrefixLen) = UnitsPrefix
    THEN <<tokenize_header(Drop(l, UnitsPrefixLen))>>
    ELSE IF Take(l, 1) = <<"#">>
    THEN <<>>
    ELSE <<space2comma(l)>>

\* EmitLine writing the header row as a data row, without the quoting.
EmitLineHeaderUnquoted(l, keep) ==
    IF Take(l, ColumnsPrefixLen) = ColumnsPrefix
    THEN <<space2comma(Drop(l, ColumnsPrefixLen))>>
    ELSE IF Take(l, UnitsPrefixLen) = UnitsPrefix
    THEN (IF keep THEN <<tokenize_header(Drop(l, UnitsPrefixLen))>> ELSE <<>>)
    ELSE IF Take(l, 1) = <<"#">>
    THEN <<>>
    ELSE <<space2comma(l)>>

\* EmitLine writing nothing for a blank line.
EmitLineSkipsBlank(l, keep) ==
    IF Take(l, ColumnsPrefixLen) = ColumnsPrefix
    THEN <<tokenize_header(Drop(l, ColumnsPrefixLen))>>
    ELSE IF Take(l, UnitsPrefixLen) = UnitsPrefix
    THEN (IF keep THEN <<tokenize_header(Drop(l, UnitsPrefixLen))>> ELSE <<>>)
    ELSE IF Take(l, 1) = <<"#">> \/ l = <<>>
    THEN <<>>
    ELSE <<space2comma(l)>>

\* lines 208-267: the lines one eligible (stripped) line makes the writer write
EmitLine(l, keep) ==
    IF Take(l, ColumnsPrefixLen) = ColumnsPrefix
    THEN <<tokenize_header(Drop(l, ColumnsPrefixLen))>>
    ELSE IF Take(l, UnitsPrefixLen) = UnitsPrefix
    THEN (IF keep THEN <<tokenize_header(Drop(l, UnitsPrefixLen))>> ELSE <<>>)
    ELSE IF Take(l, 1) = <<"#">>
    THEN <<>>
    ELSE <<space2comma(l)>>

\* IsPolicy knowing a policy by its name only.
IsPolicyNameOnly(pb, digit, name) == Str(pb) = name

\* lines 175, 177, 182: str(parser_behavior) == '<digit>' or == '<name>'
IsPolicy(pb, digit, name) == Str(pb) = digit \/ Str(pb) = name

PolicyNew(pb) == IsPolicy(pb, <<"1">>, <<"n", "e", "w">>)
PolicyFail(pb) == IsPolicy(pb, <<"2">>, <<"f", "a", "i", "l">>)
PolicyRaw(pb) == IsPolicy(pb, <<"3">>, <<"r", "a", "w">>)

\* PolicyOutcome with fail raising as soon as one marker was counted.
PolicyOutcomeFailOnOne(pb, count) ==
    IF PolicyNew(pb) THEN [mode |-> "False", error |-> "none"]
    ELSE IF PolicyFail(pb)
    THEN (IF count >= 1
          THEN [mode |-> "None", error |-> "MultipleTableStartsError"]
          ELSE [mode |-> "False", error |-> "none"])
    ELSE IF PolicyRaw(pb) THEN [mode |-> "True", error |-> "none"]
    ELSE [mode |-> "None", error |-> "InvalidParserBehaviorError"]

\* PolicyOutcome with fail selecting the raw parsing mode.
PolicyOutcomeFailAsRaw(pb, count) ==
    IF PolicyNew(pb) THEN [mode |-> "False", error |-> "none"]
    ELSE IF PolicyFail(pb)
    THEN (IF count > 1
          THEN [mode |-> "None", error |-> "MultipleTableStartsError"]
          ELSE [mode |-> "True", error |-> "none"])
    ELSE IF PolicyRaw(pb) THEN [mode |-> "True", error |-> "none"]
    ELSE [mode |-> "None", error |-> "InvalidParserBehaviorError"]

\* lines 174-185: the parsing mode a policy selects, or the error it raises
PolicyOutcome(pb, count) ==
    IF PolicyNew(pb) THEN [mode |-> "False", error |-> "none"]
    ELSE IF PolicyFail(pb)
    THEN (IF count > 1
          THEN [mode |-> "None", error |-> "MultipleTableStartsError"]
          ELSE [mode |-> "False", error |-> "none"])
    ELSE IF PolicyRaw(pb) THEN [mode |-> "True", error |-> "none"]
    ELSE [mode |-> "None", error |-> "InvalidParserBehaviorError"]

-----------------------------------------------------------------------------
(* The inputs the model explores                                           *)

\* The longest input file, in lines.
MaxLines == 3

\* The lines an input file is made of.
LineTableStart == <<"#", " ", "T", "a", "b", "l", "e", " ", "S", "t", "a", "r", "t">>
LineColumns == <<"#", " ", "C", "o", "l", "u", "m", "n", "s", ":", " ", "a", " ", "{", "b", " ", "c", "}">>
LineUnits == <<"#", " ", "U", "n", "i", "t", "s", ":", " ", "s", " ", "{", "}">>
LineComment == <<"#", " ", "x">>
LineRow1 == <<" ", "1", " ", " ", "2">>
LineRow2 == <<"3">>
LineBlank == <<>>

LinePool == {LineTableStart, LineColumns, LineUnits, LineComment,
             LineRow1, LineRow2, LineBlank}

Files(n) == UNION {[1..k -> LinePool] : k \in 0..n}

\* The paths of the file system.
PathOdt == <<"a", ".", "o", "d", "t">>
PathCsvInput == <<"a", ".", "c", "s", "v">>
PathAbsent == <<"m", ".", "o", "d", "t">>
PathOut == <<"o">>
PathOutCsv == <<"o", ".", "c", "s", "v">>
Suffix == <<"_", "s">>

\* What a file at the output path held before the call.
OldLines == <<<<"o", "l", "d">>>>

\* convert(odt_input) with every other argument left at its default but the policy.
DefaultCall == [odt_input |-> PathOdt, csv_output |-> None, output_suffix |-> None]

\* The path arguments convert() is called with.
CallConfigs ==
    { DefaultCall,
      [odt_input |-> PathOdt, csv_output |-> None, output_suffix |-> Some(Suffix)],
      [odt_input |-> PathOdt, csv_output |-> Some(PathOut), output_suffix |-> None],
      [odt_input |-> PathOdt, csv_output |-> Some(PathOutCsv), output_suffix |-> Some(Suffix)],
      [odt_input |-> PathCsvInput, csv_output |-> None, output_suffix |-> None],
      [odt_input |-> PathAbsent, csv_output |-> None, output_suffix |-> None] }

AllPaths ==
    {c.odt_input : c \in CallConfigs}
    \cup {OutputPath(c.odt_input, c.csv_output, c.output_suffix) : c \in CallConfigs}

\* The policy arguments convert() is called with.
Policies ==
    { PyInt(0), PyInt(1), PyInt(2), PyInt(3),
      PyStr(<<"n", "e", "w">>), PyStr(<<"f", "a", "i", "l">>), PyStr(<<"r", "a", "w">>), PyStr(<<"b", "a", "d">>),
      PyStr(<<"1">>) }

NoError == [type |-> "none", arg |-> PyInt(0)]

\* The file system at the call: the input file (unless the path is the absent
\* one) and an older file at o.csv.
InitialFs(in, lines) ==
    [p \in AllPaths |->
        IF p = in /\ in # PathAbsent THEN File(lines)
        ELSE IF p = PathOutCsv THEN File(OldLines)
        ELSE Missing]

HelperIdle ==
    /\ fn = "none"
    /\ str_ = <<>>
    /\ ret = <<>>
    /\ returned = FALSE

ConvertLocalsInit ==
    /\ fo = <<>>
    /\ handles = <<>>
    /\ read_in = 0
    /\ write_out = 0
    /\ table_start_count = 0
    /\ raw_parsing_mode = "None"
    /\ encountered_table_starts = 0
    /\ raised = NoError
    /\ trace = <<>>

\* A call of convert(): the path arguments vary over files of up to
\* MaxLines - 1 lines, the default ones over files of up to MaxLines lines.
Init ==
    /\ \E c \in CallConfigs, lines \in Files(MaxLines) :
          /\ c = DefaultCall \/ Len(lines) < MaxLines
          /\ odt_input = c.odt_input
          /\ csv_output = c.csv_output
          /\ output_suffix = c.output_suffix
          /\ fs = InitialFs(c.odt_input, lines)
    /\ fs0 = fs
    /\ keep_unit \in BOOLEAN
    /\ parser_behavior \in Policies
    /\ pc = "call"
    /\ ConvertLocalsInit
    /\ HelperIdle

-----------------------------------------------------------------------------
(* convert(), lines 122-273                                                *)

Raise(type, arg) ==
    /\ raised' = [type |-> type, arg |-> arg]
    /\ pc' = "raised"

\* lines 141-143
CheckInput ==
    /\ pc = "call"
    /\ IF ~fs[odt_input].exists
       THEN Raise("ODTFileNotFoundError", PyStr(odt_input))
       ELSE pc' = "resolve" /\ UNCHANGED raised
    /\ UNCHANGED <<fs, fs0, handles, odt_input, csv_output, output_suffix, keep_unit,
                   parser_behavior, fo, read_in, write_out, table_start_count,
                   raw_parsing_mode, encountered_table_starts, trace>>
    /\ UNCHANGED helperVars

\* lines 145-154
ResolveOutput ==
    /\ pc = "resolve"
    /\ fo' = OutputPath(odt_input, csv_output, output_suffix)
    /\ pc' = "open"
    /\ UNCHANGED <<fs, fs0, handles, odt_input, csv_output, output_suffix, keep_unit,
                   parser_behavior, read_in, write_out, table_start_count,
                   raw_parsing_mode, encountered_table_starts, raised, trace>>
    /\ UNCHANGED helperVars

\* lines 156-166: open the input and count its table starts
PreScan ==
    /\ pc = "open"
    /\ LET lines == fs[odt_input].lines
       IN  /\ handles' = Append(handles, [Handle(odt_input, "r") EXCEPT !.pos = Len(lines)])
           /\ read_in' = Len(handles) + 1
           /\ table_start_count' = CountTableStarts(lines)
    /\ pc' = "reload"
    /\ UNCHANGED <<fs, fs0, odt_input, csv_output, output_suffix, keep_unit,
                   parser_behavior, fo, write_out, raw_parsing_mode,
                   encountered_table_starts, raised, trace>>
    /\ UNCHANGED helperVars

\* lines 168-171: close the reader and open the input again
Reload ==
    /\ pc = "reload"
    /\ handles' = Append([handles EXCEPT ![read_in].closed = TRUE], Handle(odt_input, "r"))
    /\ read_in' = Len(handles) + 1
    /\ pc' = "policy"
    /\ UNCHANGED <<fs, fs0, odt_input, csv_output, output_suffix, keep_unit,
                   parser_behavior, fo, write_out, table_start_count, raw_parsing_mode,
                   encountered_table_starts, raised, trace>>
    /\ UNCHANGED helperVars

\* ResolvePolicy with the output truncated (line 191) ahead of the policy test.
ResolvePolicyAfterTruncation ==
    /\ pc = "policy"
    /\ fs' = [fs EXCEPT ![fo] = File(<<>>)]
    /\ LET outcome == PolicyOutcome(parser_behavior, table_start_count)
       IN  IF outcome.error = "none"
           THEN /\ raw_parsing_mode' = outcome.mode
                /\ pc' = "writer"
                /\ UNCHANGED raised
           ELSE /\ Raise(outcome.error,
                         IF outcome.error = "MultipleTableStartsError"
                         THEN PyInt(table_start_count)
                         ELSE parser_behavior)
                /\ UNCHANGED raw_parsing_mode
    /\ UNCHANGED <<fs0, handles, odt_input, csv_output, output_suffix, keep_unit,
                   parser_behavior, fo, read_in, write_out, table_start_count,
                   encountered_table_starts, trace>>
    /\ UNCHANGED helperVars

\* lines 173-185
ResolvePolicy ==
    /\ pc = "policy"
    /\ LET outcome == PolicyOutcome(parser_behavior, table_start_count)
       IN  IF outcome.error = "none"
           THEN /\ raw_parsing_mode' = outcome.mode
                /\ pc' = "writer"
                /\ UNCHANGED raised
           ELSE /\ Raise(outcome.error,
                         IF outcome.error = "MultipleTableStartsError"
                         THEN PyInt(table_start_count)
                         ELSE parser_behavior)
                /\ UNCHANGED raw_parsing_mode
    /\ UNCHANGED <<fs, fs0, handles, odt_input, csv_output, output_suffix, keep_unit,
                   parser_behavior, fo, read_in, write_out, table_start_count,
                   encountered_table_starts, trace>>
    /\ UNCHANGED helperVars

\* lines 188-195: truncate the output, open it for appending
SetupWriter ==
    /\ pc = "writer"
    /\ raw_parsing_mode # "None"
    /\ fs' = [fs EXCEPT ![fo] = File(<<>>)]
    /\ handles' = handles \o <<[Handle(fo, "w") EXCEPT !.closed = TRUE], Handle(fo, "a")>>
    /\ write_out' = Len(handles) + 2
    /\ encountered_table_starts' = 0
    /\ pc' = "main"
    /\ UNCHANGED <<fs0, odt_input, csv_output, output_suffix, keep_unit,
                   parser_behavior, fo, read_in, table_start_count, raw_parsing_mode,
                   raised, trace>>
    /\ UNCHANGED helperVars

\* lines 196-267: one iteration of the main pass
MainPassLine ==
    /\ pc = "main"
    /\ handles[read_in].pos < Len(fs[odt_input].lines)
    /\ LET rawline == fs[odt_input].lines[handles[read_in].pos + 1]
           l == Strip(rawline)
           encountered == encountered_table_starts
                          + (IF StartsWith(l, TableStartPrefix) THEN 1 ELSE 0)
           skipped == SkipLine(raw_parsing_mode, encountered, table_start_count)
           wrote == IF skipped THEN <<>> ELSE EmitLine(l, keep_unit)
       IN  /\ encountered_table_starts' = encountered
           /\ handles' = [handles EXCEPT ![read_in].pos = @ + 1]
           /\ fs' = [fs EXCEPT ![fo].lines = @ \o wrote]
           /\ trace' = Append(trace, [line |-> rawline, skipped |-> skipped,
                                      wrote |-> wrote])
    /\ UNCHANGED <<fs0, odt_input, csv_output, output_suffix, keep_unit,
                   parser_behavior, pc, fo, read_in, write_out, table_start_count,
                   raw_parsing_mode, raised>>
    /\ UNCHANGED helperVars

\* lines 269-270: the input is exhausted
CloseWriter ==
    /\ pc = "main"
    /\ handles[read_in].pos >= Len(fs[odt_input].lines)
    /\ handles' = [handles EXCEPT ![write_out].closed = TRUE]
    /\ pc' = "close_reader"
    /\ UNCHANGED <<fs, fs0, odt_input, csv_output, output_suffix, keep_unit,
                   parser_behavior, fo, read_in, write_out, table_start_count,
                   raw_parsing_mode, encountered_table_starts, raised, trace>>
    /\ UNCHANGED helperVars

\* lines 272-273
CloseReader ==
    /\ pc = "close_reader"
    /\ handles' = [handles EXCEPT ![read_in].closed = TRUE]
    /\ pc' = "done"
    /\ UNCHANGED <<fs, fs0, odt_input, csv_output, output_suffix, keep_unit,
                   parser_behavior, fo, read_in, write_out, table_start_count,
                   raw_parsing_mode, encountered_table_starts, raised, trace>>
    /\ UNCHANGED helperVars

Next ==
    \/ CheckInput
    \/ ResolveOutput
    \/ PreScan
    \/ Reload
    \/ ResolvePolicy
    \/ SetupWriter
    \/ MainPassLine
    \/ CloseWriter
    \/ CloseReader

Spec == Init /\ [][Next]_vars

-----------------------------------------------------------------------------
(* Direct calls of tokenize_header and space2comma                         *)

\* The longest argument enumerated, in characters.
MaxStrLen == 6

StrAlphabet == {"a", "b", " ", "{", "}"}

Strings(n) == UNION {[1..k -> StrAlphabet] : k \in 0..n}

\* The header and data-row texts of the specification's examples.
ExampleBraceSpace == <<"x", "{", "A", " ", "B", "}", " ", "y">>
ExampleNoBraces == <<"a", " ", "b", " ", " ", "c">>
ExampleNoSpaceAfter == <<"x", "{", "A", "}", "b">>
ExampleEmptyGroup == <<"x", "{", "}", "y">>
ExampleRow == <<"1", ".", "0", " ", " ", " ", "2", ".", "0", " ", "3", ".", "0">>

HelperInputs ==
    Strings(MaxStrLen)
    \cup {ExampleBraceSpace, ExampleNoBraces, ExampleNoSpaceAfter, ExampleEmptyGroup,
          ExampleRow}

ConvertIdle ==
    /\ fs = InitialFs(PathAbsent, <<>>)
    /\ fs0 = fs
    /\ odt_input = PathAbsent
    /\ csv_output = None
    /\ output_suffix = None
    /\ keep_unit = FALSE
    /\ parser_behavior = PyInt(2)
    /\ pc = "idle"
    /\ ConvertLocalsInit

InitHelper ==
    /\ fn \in {"tokenize_header", "space2comma"}
    /\ str_ \in HelperInputs
    /\ ret = <<>>
    /\ returned = FALSE
    /\ ConvertIdle

\* lines 79-120
CallTokenizeHeader ==
    /\ fn = "tokenize_header"
    /\ ~returned
    /\ ret' = tokenize_header(str_)
    /\ returned' = TRUE
    /\ UNCHANGED <<fn, str_>>
    /\ UNCHANGED convertVars

\* lines 70-77
CallSpace2Comma ==
    /\ fn = "space2comma"
    /\ ~returned
    /\ ret' = space2comma(str_)
    /\ returned' = TRUE
    /\ UNCHANGED <<fn, str_>>
    /\ UNCHANGED convertVars

NextHelper ==
    \/ CallTokenizeHeader
    \/ CallSpace2Comma

SpecHelper == InitHelper /\ [][NextHelper]_vars

-----------------------------------------------------------------------------
(* Vocabulary of the properties                                            *)

\* The lines of the input file when convert() was called.
InputLines == fs0[odt_input].lines

\* The lines of the file at the resolved output path.
Output == fs[fo].lines

\* The resolved output path is the input path itself.
OutputIsInput == fo = odt_input

\* convert() has returned or raised.
Returned == pc = "done"
Raised == pc = "raised"

\* The policy argument, as the caller names it.
IsNew == parser_behavior \in {PyInt(1), PyStr(<<"n", "e", "w">>)}
IsFail == parser_behavior \in {PyInt(2), PyStr(<<"f", "a", "i", "l">>)}
IsRaw == parser_behavior \in {PyInt(3), PyStr(<<"r", "a", "w">>)}

\* T: the number of table-start markers of the input.
MarkerCount == Cardinality({i \in 1..Len(InputLines) : IsTableStart(InputLines[i])})

\* The index of the last table-start marker of lines, 0 when there is none.
LastTableStart(lines) ==
    LET marks == {i \in 1..Len(lines) : IsTableStart(lines[i])}
    IN  IF marks = {} THEN 0 ELSE CHOOSE i \in marks : \A j \in marks : j <= i

\* The lines before the last marker, and the lines from it on (all of them
\* when there is no marker).
BeforeLastSegment(lines) == SubSeq(lines, 1, LastTableStart(lines) - 1)
LastSegment(lines) ==
    IF LastTableStart(lines) = 0 THEN lines
    ELSE SubSeq(lines, LastTableStart(lines), Len(lines))

\* The in-order concatenation of the conversions of lines.
RECURSIVE Conversions(_, _)
Conversions(lines, keep) ==
    IF lines = <<>> THEN <<>>
    ELSE EmitLine(Strip(Head(lines)), keep) \o Conversions(Tail(lines), keep)

\* The in-order concatenation of the conversions of the `# Columns:` lines and
\* the data rows of lines, and of nothing else.
RECURSIVE ColumnsAndRows(_)
ColumnsAndRows(lines) ==
    IF lines = <<>> THEN <<>>
    ELSE LET l == Strip(Head(lines))
         IN  (IF StartsWith(l, ColumnsPrefix)
              THEN <<tokenize_header(Drop(l, Len(ColumnsPrefix)))>>
              ELSE IF StartsWith(l, <<"#">>) THEN <<>>
              ELSE <<space2comma(l)>>)
             \o ColumnsAndRows(Tail(lines))

\* What the iterations of the main pass wrote, in order.
RECURSIVE Written(_)
Written(tr) == IF tr = <<>> THEN <<>> ELSE Head(tr).wrote \o Written(Tail(tr))

-----------------------------------------------------------------------------
(* C1 *)

\* C1: under policy new (or 1), a returned convert() has written the
\* conversions of the lines at or after the last `# Table Start` marker and
\* of no line before it; with no marker every line is eligible.  (When the
\* output path is the input path, nothing at all is written.)
C1_NewConvertsOnlyLastSegment ==
    (Returned /\ IsNew) =>
        /\ Output = IF OutputIsInput THEN <<>>
                    ELSE Conversions(LastSegment(InputLines), keep_unit)
        /\ \A i \in 1..Len(trace) :
              /\ i < LastTableStart(InputLines) => trace[i].wrote = <<>>
              /\ MarkerCount = 0 => ~trace[i].skipped

\* C1 witness: a returned call under new whose input has convertible lines
\* before its last marker and whose output is not empty.
C1_Witness ==
    /\ Returned /\ IsNew /\ ~OutputIsInput
    /\ MarkerCount >= 1
    /\ Conversions(BeforeLastSegment(InputLines), keep_unit) # <<>>
    /\ Output # <<>>

-----------------------------------------------------------------------------
(* C2 *)

\* C2 as claimed: under policy raw (or 3), a returned convert() has written
\* exactly the conversions of every `# Columns:` line and every data row, in
\* order.  (Stated for an output path other than the input path.)
C2_RawWritesColumnsAndRowsOnly ==
    (Returned /\ IsRaw /\ ~OutputIsInput) => Output = ColumnsAndRows(InputLines)

\* C2 amended: under policy raw (or 3), a returned convert() has written the
\* in-order conversions of every `# Columns:` line, every `# Units:` line when
\* keep_unit is set, and every data row of all segments; no line is skipped
\* and a marker line writes nothing.  (When the output path is the input
\* path, the main pass reads the truncated file and nothing is written.)
C2_RawConvertsEveryLine ==
    (Returned /\ IsRaw) =>
        /\ Output = IF OutputIsInput THEN <<>>
                    ELSE Conversions(InputLines, keep_unit)
        /\ keep_unit = FALSE /\ ~OutputIsInput => Output = ColumnsAndRows(InputLines)
        /\ \A i \in 1..Len(trace) :
              /\ ~trace[i].skipped
              /\ IsTableStart(trace[i].line) => trace[i].wrote = <<>>

\* C2 witness: a returned raw call over two segments, with a convertible line
\* before the last marker, that wrote a unit row.
C2_Witness ==
    /\ Returned /\ IsRaw /\ ~OutputIsInput /\ keep_unit
    /\ MarkerCount >= 1
    /\ Conversions(BeforeLastSegment(InputLines), keep_unit) # <<>>
    /\ Output # ColumnsAndRows(InputLines)

-----------------------------------------------------------------------------
(* C3 *)

\* C3: under policy fail (or 2), a call whose input exists and holds T > 1
\* markers ends by raising MultipleTableStartsError(T); that error is raised
\* in no other case (not with T <= 1, not under new or raw).
C3_FailRaisesMultipleTableStarts ==
    /\ (Returned \/ Raised) /\ fs0[odt_input].exists /\ IsFail /\ MarkerCount > 1
          => /\ Raised
             /\ raised = [type |-> "MultipleTableStartsError", arg |-> PyInt(MarkerCount)]
    /\ raised.type = "MultipleTableStartsError"
          => IsFail /\ MarkerCount > 1 /\ ~IsNew /\ ~IsRaw

\* C3 witness: MultipleTableStartsError(2) has been raised.
C3_Witness ==
    /\ Raised
    /\ raised = [type |-> "MultipleTableStartsError", arg |-> PyInt(2)]
    /\ MarkerCount = 2

-----------------------------------------------------------------------------
(* C4 *)

\* C4: when convert() has raised, the file at the resolved output path is as
\* it was before the call: same content if it existed, still absent if not.
C4_RaiseLeavesOutputUntouched ==
    Raised =>
        LET out == OutputPath(odt_input, csv_output, output_suffix)
        IN  /\ fs[out] = fs0[out]
            /\ raised.type \in {"ODTFileNotFoundError", "InvalidParserBehaviorError",
                                "MultipleTableStartsError"}

\* C4 witness: MultipleTableStartsError raised by a call whose output path
\* held a file before the call.
C4_Witness ==
    /\ Raised
    /\ raised.type = "MultipleTableStartsError"
    /\ fs0[fo].exists
    /\ fs[fo].lines = OldLines

-----------------------------------------------------------------------------
(* C5 *)

-----------------------------------------------------------------------------
(* C6 *)

\* C6 as claimed: when convert() has returned or raised, every file object
\* it opened is closed.
C6_EveryHandleClosedOnExit ==
    (Returned \/ Raised) => \A h \in 1..Len(handles) : handles[h].closed

-----------------------------------------------------------------------------
(* C7 *)

\* C7 as claimed: when InvalidParserBehaviorError is raised, the input file
\* has not been opened or read: no file object exists and no pre-scan ran.
C7_InvalidPolicyRaisedBeforeReading ==
    raised.type = "InvalidParserBehaviorError" =>
        \A h \in 1..Len(handles) : handles[h].path # odt_input

-----------------------------------------------------------------------------
(* C8 *)

\* C8: every `# Units:` line the main pass does not skip writes exactly one
\* line, tokenize_header of the text after the 8-character prefix, when
\* keep_unit is set and nothing when it is not; it is never written as a data
\* row.  The output is what the iterations wrote, in order.
C8_UnitsRowOnlyWhenKept ==
    /\ \A i \in 1..Len(trace) :
          LET l == Strip(trace[i].line)
          IN  (StartsWith(l, UnitsPrefix) /\ ~trace[i].skipped) =>
                 /\ trace[i].wrote = IF keep_unit
                                     THEN <<tokenize_header(SubSeq(l, 9, Len(l)))>>
                                     ELSE <<>>
                 /\ trace[i].wrote # <<space2comma(l)>>
    /\ pc \in {"main", "close_reader", "done"} => Output = Written(trace)

\* C8 witness: a returned call with keep_unit set that wrote the unit row of
\* `# Units: s {}`.
C8_Witness ==
    /\ Returned /\ keep_unit
    /\ \E i \in 1..Len(trace) :
          /\ trace[i].line = LineUnits
          /\ ~trace[i].skipped
          /\ trace[i].wrote = <<<<"\"", "s", "\"", ",", "\"", "\"">>>>
    /\ Output # <<>>

-----------------------------------------------------------------------------
(* C9 *)

\* Whether the braces of a header are balanced and
\* not nested and every group holds a character that is not a space.
RECURSIVE WellBracedFrom(_, _, _)
WellBracedFrom(s, inGroup, nonblank) ==
    IF s = <<>> THEN ~inGroup
    ELSE IF inGroup
         THEN (IF Head(s) = "{" THEN FALSE
               ELSE IF Head(s) = "}" THEN nonblank /\ WellBracedFrom(Tail(s), FALSE, FALSE)
               ELSE WellBracedFrom(Tail(s), TRUE, nonblank \/ Head(s) # " "))
         ELSE (IF Head(s) = "}" THEN FALSE
               ELSE WellBracedFrom(Tail(s), Head(s) = "{", FALSE))

WellBraced(s) == WellBracedFrom(s, FALSE, FALSE)

\* The space-delimited words of a text.
RECURSIVE WordsFrom(_, _)
WordsFrom(s, cur) ==
    IF s = <<>> THEN (IF cur = <<>> THEN <<>> ELSE <<cur>>)
    ELSE IF Head(s) = " "
         THEN (IF cur = <<>> THEN <<>> ELSE <<cur>>) \o WordsFrom(Tail(s), <<>>)
         ELSE WordsFrom(Tail(s), Append(cur, Head(s)))

\* Words joined by single spaces: a text space-collapsed and trimmed.
RECURSIVE JoinWords(_)
JoinWords(words) ==
    IF words = <<>> THEN <<>>
    ELSE IF Len(words) = 1 THEN Head(words)
    ELSE Head(words) \o <<" ">> \o JoinWords(Tail(words))

\* The tokens of a well-braced header, left to right: one per brace group,
\* holding all of its contents, and one per word outside the groups.
RECURSIVE HeaderTokensFrom(_, _, _)
HeaderTokensFrom(s, inGroup, cur) ==
    IF s = <<>> THEN WordsFrom(cur, <<>>)
    ELSE IF inGroup
         THEN (IF Head(s) = "}"
               THEN <<JoinWords(WordsFrom(cur, <<>>))>> \o HeaderTokensFrom(Tail(s), FALSE, <<>>)
               ELSE HeaderTokensFrom(Tail(s), TRUE, Append(cur, Head(s))))
         ELSE (IF Head(s) = "{"
               THEN WordsFrom(cur, <<>>) \o HeaderTokensFrom(Tail(s), TRUE, <<>>)
               ELSE HeaderTokensFrom(Tail(s), FALSE, Append(cur, Head(s))))

HeaderTokens(s) == HeaderTokensFrom(s, FALSE, <<>>)

\* Tokens each wrapped in double quotes, joined by single commas.
RECURSIVE JoinQuoted(_)
JoinQuoted(tokens) ==
    IF tokens = <<>> THEN <<>>
    ELSE <<"\"">> \o Head(tokens) \o <<"\"">>
         \o (IF Len(tokens) = 1 THEN <<>> ELSE <<",">> \o JoinQuoted(Tail(tokens)))

\* C9: for a header whose braces are balanced, not nested and not empty,
\* tokenize_header returns, in source order, one quoted token per brace group
\* holding the group's whole contents (space-collapsed, trimmed) and one
\* quoted token per word outside the groups.
C9_OneTokenPerGroupAndWord ==
    (fn = "tokenize_header" /\ returned /\ WellBraced(str_)) =>
        ret = JoinQuoted(HeaderTokens(str_))

\* C9 witness: `{a b}b`, a group with an inner space directly followed by
\* text, has been tokenized to "a b","b".
C9_Witness ==
    /\ fn = "tokenize_header" /\ returned
    /\ str_ = <<"{", "a", " ", "b", "}", "b">>
    /\ WellBraced(str_)
    /\ ret = <<"\"", "a", " ", "b", "\"", ",", "\"", "b", "\"">>

-----------------------------------------------------------------------------
(* C10 *)

\* C10 as claimed: tokenize_header of `x{A B} y` returns "x","A","y".
C10_BraceSpaceExampleCutAtSpace ==
    (fn = "tokenize_header" /\ returned /\ str_ = ExampleBraceSpace) =>
        ret = <<"\"", "x", "\"", ",", "\"", "A", "\"", ",", "\"", "y", "\"">>

\* C10 amended: tokenize_header of `x{A B} y` returns "x","A B","y": the
\* whole text inside the braces, its inner space included, is the group's
\* one token.
C10_BraceSpaceExampleWholeGroup ==
    (fn = "tokenize_header" /\ returned /\ str_ = ExampleBraceSpace) =>
        ret = <<"\"", "x", "\"", ",", "\"", "A", " ", "B", "\"", ",", "\"", "y", "\"">>

\* C10 witness: tokenize_header has returned for `x{A B} y`.
C10_Witness ==
    /\ fn = "tokenize_header" /\ returned
    /\ str_ = ExampleBraceSpace
    /\ Len(ret) > 0

-----------------------------------------------------------------------------
(* C11 *)

\* Whether the braces of a header are balanced and not nested and every
\* group either is the empty group `{}` or holds a character that is not a
\* space.
RECURSIVE BracedOrEmptyFrom(_, _, _, _)
BracedOrEmptyFrom(s, inGroup, nonblank, size) ==
    IF s = <<>> THEN ~inGroup
    ELSE IF inGroup
         THEN (IF Head(s) = "{" THEN FALSE
               ELSE IF Head(s) = "}"
               THEN (nonblank \/ size = 0) /\ BracedOrEmptyFrom(Tail(s), FALSE, FALSE, 0)
               ELSE BracedOrEmptyFrom(Tail(s), TRUE, nonblank \/ Head(s) # " ", size + 1))
         ELSE (IF Head(s) = "}" THEN FALSE
               ELSE BracedOrEmptyFrom(Tail(s), Head(s) = "{", FALSE, 0))

BracedOrEmpty(s) == BracedOrEmptyFrom(s, FALSE, FALSE, 0)

\* The source holds an empty brace group `{}`.
HasEmptyGroup(s) == \E i \in 1..(Len(s) - 1) : s[i] = "{" /\ s[i + 1] = "}"

\* C11 as claimed: for a header with balanced, not nested braces, every empty
\* group `{}` gives an empty quoted token "" at its position among the tokens
\* of the other groups and words, whatever precedes or follows it.
C11_EmptyGroupGivesEmptyToken ==
    (fn = "tokenize_header" /\ returned /\ BracedOrEmpty(str_) /\ HasEmptyGroup(str_)) =>
        ret = JoinQuoted(HeaderTokens(str_))

-----------------------------------------------------------------------------
(* C12 *)

\* Whether the braces of a header are balanced and not nested.
RECURSIVE BalancedFrom(_, _)
BalancedFrom(s, inGroup) ==
    IF s = <<>> THEN ~inGroup
    ELSE IF Head(s) = "{" THEN ~inGroup /\ BalancedFrom(Tail(s), TRUE)
    ELSE IF Head(s) = "}" THEN inGroup /\ BalancedFrom(Tail(s), FALSE)
    ELSE BalancedFrom(Tail(s), inGroup)

Balanced(s) == BalancedFrom(s, FALSE)

\* The source holds a brace group with nothing or only spaces inside.
HasBlankGroup(s) ==
    \E i \in 1..Len(s) : \E j \in (i + 1)..Len(s) :
        /\ s[i] = "{"
        /\ s[j] = "}"
        /\ \A k \in (i + 1)..(j - 1) : s[k] = " "

\* The returned text holds an empty quoted token "".
HasEmptyToken(r) == \E i \in 1..(Len(r) - 1) : r[i] = "\"" /\ r[i + 1] = "\""

\* The tokens of a returned text whose tokens hold no double quote: the
\* texts between its opening and closing quotes.
ReturnedTokens(r) ==
    LET parts == Split(r, "\"")
    IN  [k \in 1..(Len(parts) \div 2) |-> parts[2 * k]]

RECURSIVE Flatten(_)
Flatten(seqs) == IF seqs = <<>> THEN <<>> ELSE Head(seqs) \o Flatten(Tail(seqs))

\* a is b with characters left out.
RECURSIVE IsSubsequence(_, _)
IsSubsequence(a, b) ==
    IF a = <<>> THEN TRUE
    ELSE IF b = <<>> THEN FALSE
    ELSE IF Head(a) = Head(b) THEN IsSubsequence(Tail(a), Tail(b))
    ELSE IsSubsequence(a, Tail(b))

\* The tokens of the returned text, one after the other, read left to right
\* in the source.
TokensInSourceOrder == IsSubsequence(Flatten(ReturnedTokens(ret)), str_)

\* C12 as claimed: for every header, balanced or not, tokenize_header returns
\* no empty token "" unless the source holds an empty group `{}`, and the
\* tokens are in the left-to-right order of the source.
C12_NoEmptyTokenWithoutEmptyGroup ==
    (fn = "tokenize_header" /\ returned) =>
        /\ HasEmptyToken(ret) => HasEmptyGroup(str_)
        /\ TokensInSourceOrder

\* C12 amended: for every header, balanced or not, the tokens are in the
\* left-to-right order of the source; for a header whose braces are balanced
\* and not nested there is no empty token "" unless the source holds a group
\* that is empty or holds only spaces (`{}`, `{ }`).
C12_NoEmptyTokenWithoutBlankGroup ==
    (fn = "tokenize_header" /\ returned) =>
        /\ TokensInSourceOrder
        /\ (Balanced(str_) /\ HasEmptyToken(ret)) => HasBlankGroup(str_)

\* C12 witness: `a{} b` has been tokenized to "a","","b".
C12_Witness ==
    /\ fn = "tokenize_header" /\ returned
    /\ str_ = <<"a", "{", "}", " ", "b">>
    /\ HasEmptyToken(ret)
    /\ ret = <<"\"", "a", "\"", ",", "\"", "\"", ",", "\"", "b", "\"">>

-----------------------------------------------------------------------------
(* C13 *)

\* The header holds no brace.
BraceFree(s) == ~Contains(s, "{") /\ ~Contains(s, "}")

\* C13: for a brace-free header tokenize_header returns its space-delimited
\* words, each in double quotes, joined by single commas: no trailing comma,
\* no empty token, and the empty text for an empty or all-space header.
C13_BraceFreeWordsQuoted ==
    (fn = "tokenize_header" /\ returned /\ BraceFree(str_)) =>
        /\ ret = JoinQuoted(WordsFrom(str_, <<>>))
        /\ ret # <<>> => ret[Len(ret)] = "\""
        /\ ~HasEmptyToken(ret)
        /\ (\A i \in 1..Len(str_) : str_[i] = " ") => ret = <<>>

\* C13 witness: `a b  c` has been tokenized to "a","b","c".
C13_Witness ==
    /\ fn = "tokenize_header" /\ returned
    /\ str_ = ExampleNoBraces
    /\ ret = <<"\"", "a", "\"", ",", "\"", "b", "\"", ",", "\"", "c", "\"">>

-----------------------------------------------------------------------------
(* C14 *)

\* Fields joined by single commas.
RECURSIVE JoinComma(_)
JoinComma(fields) ==
    IF fields = <<>> THEN <<>>
    ELSE IF Len(fields) = 1 THEN Head(fields)
    ELSE Head(fields) \o <<",">> \o JoinComma(Tail(fields))

\* C14: for a data row of fields (holding no space, tab or comma) separated
\* by one or more spaces, with any leading and trailing spaces, space2comma
\* returns the fields in order joined by exactly one comma each: no space, no
\* leading comma, no trailing comma, no two adjacent commas.
C14_FieldsJoinedBySingleCommas ==
    (fn = "space2comma" /\ returned /\ ~Contains(str_, ",") /\ ~Contains(str_, "\t")) =>
        /\ ret = JoinComma(WordsFrom(str_, <<>>))
        /\ ~Contains(ret, " ")
        /\ ret # <<>> => (ret[1] # "," /\ ret[Len(ret)] # ",")
        /\ \A i \in 1..(Len(ret) - 1) : ~(ret[i] = "," /\ ret[i + 1] = ",")

\* C14 witness: `1.0   2.0 3.0` has been formatted to 1.0,2.0,3.0.
C14_Witness ==
    /\ fn = "space2comma" /\ returned
    /\ str_ = ExampleRow
    /\ ret = <<"1", ".", "0", ",", "2", ".", "0", ",", "3", ".", "0">>

-----------------------------------------------------------------------------
(* C15 *)

\* What kind of output row an input line stands for.
LineKind(rawline) ==
    LET l == Strip(rawline)
    IN  IF StartsWith(l, ColumnsPrefix) THEN "header"
        ELSE IF StartsWith(l, UnitsPrefix) THEN "unit"
        ELSE IF StartsWith(l, <<"#">>) THEN "comment"
        ELSE "row"

\* The kinds of the rows the main pass wrote, in order.
RECURSIVE OutputKinds(_)
OutputKinds(tr) ==
    IF tr = <<>> THEN <<>>
    ELSE (IF Head(tr).wrote = <<>> THEN <<>> ELSE <<LineKind(Head(tr).line)>>)
         \o OutputKinds(Tail(tr))

\* The kinds of the lines of the input that stand for an output row, in order.
RECURSIVE RowKinds(_, _)
RowKinds(lines, keep) ==
    IF lines = <<>> THEN <<>>
    ELSE LET k == LineKind(Head(lines))
         IN  (IF k = "header" \/ k = "row" \/ (k = "unit" /\ keep) THEN <<k>> ELSE <<>>)
             \o RowKinds(Tail(lines), keep)

\* The lines the policy makes eligible.
EligibleLines == IF IsRaw THEN InputLines ELSE LastSegment(InputLines)

\* One header row first, then at most one unit row, then data rows only.
HeaderUnitRows(kinds) ==
    /\ kinds # <<>>
    /\ kinds[1] = "header"
    /\ \A i \in 2..Len(kinds) : kinds[i] # "header"
    /\ \A i \in 3..Len(kinds) : kinds[i] = "row"

\* A row of double-quoted fields.
QuotedRow(s) == Len(s) >= 2 /\ s[1] = "\"" /\ s[Len(s)] = "\""

\* C15 as claimed: after every returned convert() the output is one header
\* row, then at most one unit row, then data rows only; the header row is
\* never missing.  (Stated for an output path other than the input path.)
C15_OutputIsHeaderUnitRows ==
    (Returned /\ ~OutputIsInput) => HeaderUnitRows(OutputKinds(trace))

\* C15 amended: after every returned convert() the output holds, in input
\* order, one quoted header row for each eligible `# Columns:` line, one
\* quoted unit row for each eligible `# Units:` line when keep_unit is set and
\* none otherwise, and one unquoted data row for each eligible line that is
\* not a `#` line; so it is header, unit row, data rows exactly when the
\* eligible lines come in that order.  (When the output path is the input
\* path, nothing at all is written.)
C15_OutputFollowsEligibleLines ==
    Returned =>
        /\ Output = Written(trace)
        /\ OutputKinds(trace) = IF OutputIsInput THEN <<>>
                                ELSE RowKinds(EligibleLines, keep_unit)
        /\ Len(Output) = Len(OutputKinds(trace))
        /\ ~OutputIsInput =>
              (HeaderUnitRows(OutputKinds(trace))
                  <=> HeaderUnitRows(RowKinds(EligibleLines, keep_unit)))
        /\ \A i \in 1..Len(trace) :
              trace[i].wrote # <<>> =>
                 LET k == LineKind(trace[i].line)
                 IN  /\ Len(trace[i].wrote) = 1
                     /\ k \in {"header", "unit", "row"}
                     /\ k = "unit" => keep_unit
                     /\ k \in {"header", "unit"} => QuotedRow(trace[i].wrote[1])
                     /\ k = "row" => ~Contains(trace[i].wrote[1], "\"")

\* C15 witness: a returned call that wrote a header row, a unit row and a
\* data row, in that order.
C15_Witness ==
    /\ Returned /\ ~OutputIsInput /\ keep_unit
    /\ OutputKinds(trace) = <<"header", "unit", "row">>
    /\ Len(Output) = 3

-----------------------------------------------------------------------------
(* C16 *)

\* The policy a value stands for by its text, str(value).
PolicyClass ==
    LET text == Str(parser_behavior)
    IN  IF text \in {<<"1">>, <<"n", "e", "w">>} THEN "new"
        ELSE IF text \in {<<"2">>, <<"f", "a", "i", "l">>} THEN "fail"
        ELSE IF text \in {<<"3">>, <<"r", "a", "w">>} THEN "raw"
        ELSE "invalid"

\* The error a call ends with, as a function of the input file and of the
\* policy the value stands for.
ExpectedError ==
    IF ~fs0[odt_input].exists
    THEN [type |-> "ODTFileNotFoundError", arg |-> PyStr(odt_input)]
    ELSE IF PolicyClass = "invalid"
    THEN [type |-> "InvalidParserBehaviorError", arg |-> parser_behavior]
    ELSE IF PolicyClass = "fail" /\ MarkerCount > 1
    THEN [type |-> "MultipleTableStartsError", arg |-> PyInt(MarkerCount)]
    ELSE NoError

\* The files a call ends with, as a function of the arguments and of the
\* policy the value stands for.
ExpectedFiles ==
    LET out == OutputPath(odt_input, csv_output, output_suffix)
        eligible == IF PolicyClass = "raw" THEN InputLines ELSE LastSegment(InputLines)
    IN  IF ExpectedError # NoError THEN fs0
        ELSE [fs0 EXCEPT ![out] = File(IF out = odt_input THEN <<>>
                                       ELSE Conversions(eligible, keep_unit))]

-----------------------------------------------------------------------------
(* C17 *)

\* The number of marker lines among the lines the main pass has read.
MarkersRead == Cardinality({i \in 1..Len(trace) : IsTableStart(trace[i].line)})

\* C17: while the input file is as it was at the call, at every step of the
\* main pass 0 <= encountered_table_starts <= table_start_count, the running
\* count is the number of markers read so far and equals table_start_count
\* once the last line has been read; under a policy other than raw with
\* T >= 1, the lines before the last marker are skipped and no line from the
\* last marker on is: the first line not skipped is the last marker itself.
C17_RunningCountBoundedByPreScan ==
    (pc \in {"main", "close_reader", "done"} /\ fs[odt_input] = fs0[odt_input]) =>
        /\ 0 <= encountered_table_starts
        /\ encountered_table_starts <= table_start_count
        /\ table_start_count = MarkerCount
        /\ encountered_table_starts = MarkersRead
        /\ \A i \in 1..Len(trace) : trace[i].line = InputLines[i]
        /\ Len(trace) = Len(InputLines) => encountered_table_starts = table_start_count
        /\ pc \in {"close_reader", "done"} => Len(trace) = Len(InputLines)
        /\ (PolicyClass \in {"new", "fail"} /\ MarkerCount >= 1) =>
              \A i \in 1..Len(trace) :
                 trace[i].skipped <=> i < LastTableStart(InputLines)

\* C17 witness: a main pass under new over two markers has skipped the first
\* marker, not skipped the last one, and read the whole input.
C17_Witness ==
    /\ pc = "done" /\ fs[odt_input] = fs0[odt_input]
    /\ IsNew /\ MarkerCount = 2
    /\ encountered_table_starts = 2
    /\ trace[1].skipped
    /\ ~trace[LastTableStart(InputLines)].skipped

-----------------------------------------------------------------------------
(* C18 *)

\* C18: convert() never modifies the input file: at every step of a call and
\* after it the file at the input path holds what it held at the call, and a
\* finished main pass has read the lines the pre-scan counted.
C18_InputFileNeverModified ==
    /\ fs[odt_input] = fs0[odt_input]
    /\ pc \in {"close_reader", "done"} =>
          /\ Len(trace) = Len(InputLines)
          /\ \A i \in 1..Len(trace) : trace[i].line = InputLines[i]

-----------------------------------------------------------------------------
(* C19 *)

\* C19: each line the main pass reads writes at most one output line, a
\* skipped line none, and the output is what the lines wrote in the order of
\* their reading; an eligible line whose trimmed text does not start with `#`
\* writes exactly one line, its data row, so a blank or whitespace-only
\* eligible line writes an empty line.
C19_OneOutputLinePerDataLine ==
    pc \in {"main", "close_reader", "done"} =>
        /\ Output = Written(trace)
        /\ ~OutputIsInput => \A i \in 1..Len(trace) : trace[i].line = InputLines[i]
        /\ \A i \in 1..Len(trace) :
              LET l == Strip(trace[i].line)
              IN  /\ Len(trace[i].wrote) <= 1
                  /\ trace[i].skipped => trace[i].wrote = <<>>
                  /\ (~trace[i].skipped /\ ~StartsWith(l, <<"#">>)) =>
                        trace[i].wrote = <<space2comma(l)>>
                  /\ (~trace[i].skipped /\ l = <<>>) => trace[i].wrote = << <<>> >>

\* C19 witness: a returned call has written an empty line for a blank line
\* that followed a line with an output line of its own.
C19_Witness ==
    /\ Returned
    /\ \E i \in 2..Len(trace) :
          /\ Strip(trace[i].line) = <<>>
          /\ ~trace[i].skipped
          /\ trace[i].wrote = << <<>> >>
          /\ trace[i - 1].wrote # <<>>
    /\ \E j \in 2..Len(Output) : Output[j] = <<>>

====
